---- MODULE Spec2Model ----
(***************************************************************************)
(* Model of crate_upd_bot (src/main.rs): the git2 worker thread that pulls *)
(* the crates.io index and derives one update per commit pair (pull,       *)
(* diff_one, fast_forward), the bounded mpsc channel with its oneshot      *)
(* "unblock" sender, and the async notify loop (notify, notify_inner).     *)
(***************************************************************************)
EXTENDS Integers, Sequences, FiniteSets, TLC

(***************************************************************************)
(* Bounds of the model.                                                    *)
(***************************************************************************)
\* number of commits the remote index has beyond the initially checked-out one
MaxCommits == 2
\* number of diff lines handed to the diff_one callback (extraction check)
MaxLines == 2
\* largest configured pull delay, counted in 5-second STEPs
MaxDelaySteps == 1

(***************************************************************************)
(* Program constants.                                                      *)
(***************************************************************************)
\* mpsc::channel(2)
ChannelCapacity == 2
\* (variant: one attempt more)
RetryCountSix == 5 + 1
\* tryn(5, ...)
RetryCount == 5

(***************************************************************************)
(* Crates and diff lines.                                                  *)
(***************************************************************************)
Names == {"foo", "bar"}
Versions == {1, 2}

\* the fields of krate::Crate that main.rs reads: id.name, id.vers, yanked
Crate == [name : Names, vers : Versions, yanked : BOOLEAN]

NoCrate == [name |-> "none", vers |-> 0, yanked |-> FALSE]

\* the text of one diff line: a JSON record of a crate, or something that
\* serde_json does not accept as one
Malformed == [name |-> "malformed", vers |-> 0, yanked |-> FALSE]

\* serde_json::from_str::<Crate>(..): Some(krate) or None, as <<krate>> / <<>>
ParseCrate(content) == IF content \in Crate THEN <<content>> ELSE <<>>

DeltaStatus == {"Modified", "Added", "Deleted"}
LineOrigin == {"-", "+", " "}

ActionKind == {"NewVersion", "Yanked", "Unyanked"}

ResOk(krate, action) == [tag |-> "Ok", krate |-> krate, action |-> action]
ResErr == [tag |-> "Err", krate |-> NoCrate, action |-> "none"]
ResPanic == [tag |-> "Panic", krate |-> NoCrate, action |-> "none"]
ResNone == [tag |-> "None", krate |-> NoCrate, action |-> "none"]

\* the state the line callback of diff.foreach closes over: prev, next, and
\* whether an assert!/expect has fired (git2 stops calling back after a panic
\* and resumes the unwind when foreach returns)
CbInit == [prev |-> <<>>, next |-> <<>>, panicked |-> FALSE]

\* one call of the line callback
LineCb(st, line) ==
    IF st.panicked THEN st
    ELSE IF line.status \in {"Modified", "Added"}
    THEN IF line.origin = "-"
         THEN IF st.prev # <<>> \/ ParseCrate(line.content) = <<>>
              THEN [st EXCEPT !.panicked = TRUE]
              ELSE [st EXCEPT !.prev = ParseCrate(line.content)]
         ELSE IF line.origin = "+"
         THEN IF st.next # <<>> \/ ParseCrate(line.content) = <<>>
              THEN [st EXCEPT !.panicked = TRUE]
              ELSE [st EXCEPT !.next = ParseCrate(line.content)]
         ELSE st
    ELSE st

RECURSIVE Foreach(_, _)
Foreach(st, diff) ==
    IF diff = <<>> THEN st ELSE Foreach(LineCb(st, Head(diff)), Tail(diff))

\* (variant: the Yanked and Unyanked arms exchanged)
ClassifySwapped(prev, next) ==
    IF prev = <<>> /\ ~next.yanked THEN ResOk(next, "NewVersion")
    ELSE IF prev # <<>> /\ ~prev[1].yanked /\ next.yanked THEN ResOk(next, "Unyanked")
    ELSE IF prev # <<>> /\ prev[1].yanked /\ ~next.yanked THEN ResOk(next, "Yanked")
    ELSE ResErr

\* (variant: the first arm matches (_, false) with no yank transition)
ClassifyLenient(prev, next) ==
    IF (prev = <<>> \/ ~prev[1].yanked) /\ ~next.yanked THEN ResOk(next, "NewVersion")
    ELSE IF prev # <<>> /\ ~prev[1].yanked /\ next.yanked THEN ResOk(next, "Yanked")
    ELSE IF prev # <<>> /\ prev[1].yanked /\ ~next.yanked THEN ResOk(next, "Unyanked")
    ELSE ResErr

\* the match on (prev.map(|c| c.yanked), next.yanked)
Classify(prev, next) ==
    IF prev = <<>> /\ ~next.yanked THEN ResOk(next, "NewVersion")
    ELSE IF prev # <<>> /\ ~prev[1].yanked /\ next.yanked THEN ResOk(next, "Yanked")
    ELSE IF prev # <<>> /\ prev[1].yanked /\ ~next.yanked THEN ResOk(next, "Unyanked")
    ELSE ResErr

\* diff_one: Ok((krate, action)), Err(git2::Error) or a panic of the thread
diff_one(diff) ==
    LET st == Foreach(CbInit, diff)
    IN  IF st.panicked THEN ResPanic
        ELSE IF st.next = <<>> THEN ResPanic
        ELSE Classify(st.prev, st.next[1])

(***************************************************************************)
(* The index. Commits are numbered from the initially checked-out one (0). *)
(* What pull reads of the repository is the range HEAD~1..FETCH_HEAD, so   *)
(* the repository is the number of HEAD and the fetched commits after HEAD:*)
(* remote[i] is commit HEAD + i, and the diff of a commit is the diff of   *)
(* its parent's tree and its own.                                          *)
(***************************************************************************)
Foo(v, y) == [name |-> "foo", vers |-> v, yanked |-> y]
Bar(v, y) == [name |-> "bar", vers |-> v, yanked |-> y]
Line(s, o, c) == [status |-> s, origin |-> o, content |-> c]

Commit(a, d) == [author |-> a, diff |-> d]

RemoteCommits ==
    { Commit("bors", << Line("Modified", "+", Foo(2, FALSE)) >>),
      Commit("bors", << Line("Modified", "-", Foo(2, FALSE)),
                        Line("Modified", "+", Foo(2, TRUE)) >>),
      Commit("bors", << Line("Modified", "-", Foo(2, TRUE)),
                        Line("Modified", "+", Foo(2, FALSE)) >>),
      Commit("bors", << Line("Added", "+", Bar(1, FALSE)) >>),
      Commit("bors", << Line("Modified", "-", Foo(1, FALSE)),
                        Line("Modified", "+", Foo(1, FALSE)) >>),
      Commit("bors", << Line("Deleted", "-", Foo(1, FALSE)) >>),
      Commit("human", << Line("Modified", "+", Foo(2, FALSE)) >>) }

RECURSIVE SeqsOf(_, _)
SeqsOf(S, n) ==
    IF n = 0 THEN { <<>> }
    ELSE { Append(q, x) : q \in SeqsOf(S, n - 1), x \in S }

RECURSIVE SeqsUpTo(_, _)
SeqsUpTo(S, n) ==
    IF n <= 0 THEN { <<>> } ELSE SeqsOf(S, n) \cup SeqsUpTo(S, n - 1)

(***************************************************************************)
(* Configuration and the external collaborators.                           *)
(***************************************************************************)
ChannelId == 100

\* cfg.ban.crates
BanCrates == {"bar"}

\* db.list_subscribers(name) when the query succeeds
Subscribers(name) == IF name = "foo" THEN <<1, 2>> ELSE <<3>>

\* a oneshot::Sender is named by the number of the commit it was made for
NoSender == 0
NoItem == [krate |-> NoCrate, action |-> "none", unblock |-> NoSender]
NoCall == [dest |-> 0, silent |-> FALSE, ok |-> FALSE, logged |-> FALSE]

VARIABLES
    remote,     \* the fetched commits of origin/master after HEAD
    cfg,        \* [channel, pull_delay]: cfg.channel as <<>> / <<id>>, pull_delay in STEPs
    aborted,    \* abort_handle.abort() was called
    wpc,        \* where the git2 thread is
    cursor,     \* HEAD of the local repository (number of the commit)
    walk,       \* the commit pair the for loop is at: `next` is remote[walk]
    pd,         \* the remaining pull delay, in STEPs
    res,        \* the (krate, action) diff_one returned for the current pair
    queue,      \* the mpsc channel
    dpc,        \* where notify_loop is
    cur,        \* the (krate, action, _unblock) notify_loop received
    chPc,       \* where channel_fut is
    chTry,      \* attempts tryn has made for the send to the channel
    chOut,      \* the last send_message call of channel_fut
    chCalled,   \* the chat ids channel_fut has called notify_inner for
    usPc,       \* where users_fut is
    usTry,      \* attempts tryn has made for the current subscriber
    usOut,      \* the last send_message call of users_fut
    users,      \* the rest of the iterator the for loop of users_fut is over
    usCalled,   \* the chat ids users_fut has called notify_inner for
    listed,     \* what list_subscribers returned for the current event
    dbErr,      \* list_subscribers failed for the current event
    handed,     \* history: the commits whose update was handed to the channel
    redo        \* history: the hand-off the last restart of the process cut short

vars == << remote, cfg, aborted, wpc, cursor, walk, pd, res, queue,
           dpc, cur, chPc, chTry, chOut, chCalled, usPc, usTry, usOut, users,
           usCalled, listed, dbErr, handed, redo >>

histVars == << handed, redo >>
workerVars == << wpc, cursor, walk, pd, res >>
chanVars == << chPc, chTry, chOut, chCalled >>
userVars == << usPc, usTry, usOut, users, usCalled, listed, dbErr >>
notifyVars == << dpc, cur, chanVars, userVars >>

\* FETCH_HEAD, as an index of remote and as the number of the commit
fetchHead == Len(remote)
FetchHeadId == cursor + Len(remote)

\* the number of the commit `next` of the current pair
NextId == cursor + walk

\* the mpsc channel and notify_loop before the first recv
InitNotifyLoop ==
    /\ aborted = FALSE
    /\ queue = <<>>
    /\ dpc = "recv"
    /\ cur = NoItem
    /\ chPc = "idle" /\ chTry = 0 /\ chOut = NoCall /\ chCalled = <<>>
    /\ usPc = "idle" /\ usTry = 0 /\ usOut = NoCall
    /\ users = <<>> /\ usCalled = <<>> /\ listed = <<>> /\ dbErr = FALSE

\* no update was handed over yet, the process was never restarted
NoRedo == [id |-> 0, krate |-> NoCrate, action |-> "none"]
InitHist == handed = {} /\ redo = NoRedo

Configs == [channel : { <<>>, <<ChannelId>> }, pull_delay : 0..MaxDelaySteps]

Init ==
    /\ remote = <<>>
    /\ cfg \in Configs
    /\ wpc = "start"
    /\ cursor = 0
    /\ walk = 0
    /\ pd = 0
    /\ res = ResNone
    /\ InitNotifyLoop
    /\ InitHist

(***************************************************************************)
(* The git2 thread: 'outer loop of main, pull, fast_forward.               *)
(***************************************************************************)
\* repo.find_remote("origin")?.fetch(..)? succeeded and the walk over
\* HEAD~1..FETCH_HEAD was collected: commits = [HEAD, .., FETCH_HEAD]
FetchOk ==
    /\ wpc = "start"
    /\ \E new \in SeqsUpTo(RemoteCommits, MaxCommits - FetchHeadId) :
         remote' = remote \o new
    /\ walk' = 1
    /\ wpc' = "walk"
    /\ UNCHANGED << cursor, pd, res, queue, aborted >>
    /\ UNCHANGED << cfg, histVars, notifyVars >>

\* the fetch failed: pull returns Err, main logs it and goes on to the delay
FetchErr ==
    /\ wpc = "start"
    /\ wpc' = "delay"
    /\ pd' = cfg.pull_delay
    /\ UNCHANGED << cursor, walk, res, queue, aborted >>
    /\ UNCHANGED << remote, cfg, histVars, notifyVars >>

\* array_windows is exhausted: pull returns Ok(())
WalkDone ==
    /\ wpc = "walk"
    /\ walk > fetchHead
    /\ wpc' = "delay"
    /\ pd' = cfg.pull_delay
    /\ UNCHANGED << cursor, walk, res, queue, aborted >>
    /\ UNCHANGED << remote, cfg, histVars, notifyVars >>

IsBors(commit) == commit.author = "bors"

\* next.author().name() != Some("bors"): warn and `continue`
WalkSkip ==
    /\ wpc = "walk"
    /\ walk <= fetchHead
    /\ ~IsBors(remote[walk])
    /\ walk' = walk + 1
    /\ UNCHANGED << wpc, cursor, pd, res, queue, aborted >>
    /\ UNCHANGED << remote, cfg, histVars, notifyVars >>

\* (variant: an Err of diff_one is answered with `continue`)
WalkExtractSkipErr ==
    /\ wpc = "walk"
    /\ walk <= fetchHead
    /\ IsBors(remote[walk])
    /\ LET r == diff_one(remote[walk].diff)
       IN  /\ res' = r
           /\ IF r.tag = "Panic" THEN wpc' = "panicked" /\ walk' = walk
              ELSE IF r.tag = "Err" THEN wpc' = "walk" /\ walk' = walk + 1
              ELSE wpc' = "send" /\ walk' = walk
    /\ UNCHANGED << cursor, pd, queue, aborted >>
    /\ UNCHANGED << remote, cfg, histVars, notifyVars >>

\* diff_tree_to_tree and diff_one(diff, (prev, next))?
WalkExtract ==
    /\ wpc = "walk"
    /\ walk <= fetchHead
    /\ IsBors(remote[walk])
    /\ LET r == diff_one(remote[walk].diff)
       IN  /\ res' = r
           /\ IF r.tag = "Panic" THEN wpc' = "panicked" /\ pd' = pd
              ELSE IF r.tag = "Err" THEN wpc' = "delay" /\ pd' = cfg.pull_delay
              ELSE wpc' = "send" /\ pd' = pd
    /\ UNCHANGED << cursor, walk, queue, aborted >>
    /\ UNCHANGED << remote, cfg, histVars, notifyVars >>

\* oneshot::channel() and ch.blocking_send((krate, action, tx))
BlockingSend ==
    /\ wpc = "send"
    /\ Len(queue) < ChannelCapacity
    /\ queue' = Append(queue, [krate |-> res.krate, action |-> res.action, unblock |-> NextId])
    /\ handed' = handed \cup { NextId }
    /\ wpc' = "wait"
    /\ UNCHANGED << cursor, walk, pd, res, aborted >>
    /\ UNCHANGED << remote, cfg, redo, notifyVars >>

\* the oneshot senders that have not been dropped: those of the tuples in
\* the mpsc channel and the one notify_loop holds in `_unblock`
InFlight ==
    { queue[i].unblock : i \in 1..Len(queue) } \cup ({ cur.unblock } \ { NoSender })

\* (variant: the wait loop never finds the channel empty)
TryRecvEmptyNever == FALSE

\* rx.try_recv() is Err(TryRecvError::Empty): the sender is still alive
TryRecvEmpty == NextId \in InFlight

\* (variant: no wait loop between blocking_send and fast_forward)
WaitUnblockNoWait ==
    /\ wpc = "wait"
    /\ wpc' = "ff"
    /\ UNCHANGED << cursor, walk, pd, res, queue, aborted >>
    /\ UNCHANGED << remote, cfg, histVars, notifyVars >>

\* the `while let Err(Empty) = rx.try_recv()` loop is left
WaitUnblock ==
    /\ wpc = "wait"
    /\ ~TryRecvEmpty
    /\ wpc' = "ff"
    /\ UNCHANGED << cursor, walk, pd, res, queue, aborted >>
    /\ UNCHANGED << remote, cfg, histVars, notifyVars >>

\* (variant: the is_up_to_date branch is taken, Ok(()) with nothing moved,
\* and the for loop goes on to the next pair)
FastForwardOkUpToDate ==
    /\ wpc = "ff"
    /\ walk' = walk + 1
    /\ res' = ResNone
    /\ wpc' = "walk"
    /\ UNCHANGED << cursor, pd, queue, aborted >>
    /\ UNCHANGED << remote, cfg, histVars, notifyVars >>

\* (variant: fast_forward(repo, prev), the for loop goes on to the next pair)
FastForwardOkPrev ==
    /\ wpc = "ff"
    /\ cursor' = NextId - 1
    /\ remote' = SubSeq(remote, walk, Len(remote))
    /\ walk' = 2
    /\ res' = ResNone
    /\ wpc' = "walk"
    /\ UNCHANGED << pd, queue, aborted >>
    /\ UNCHANGED << cfg, histVars, notifyVars >>

\* fast_forward(repo, next)? moved refs/heads/master and HEAD to `next`
FastForwardOk ==
    /\ wpc = "ff"
    /\ cursor' = NextId
    /\ remote' = SubSeq(remote, walk + 1, Len(remote))
    /\ walk' = 1
    /\ res' = ResNone
    /\ wpc' = "walk"
    /\ UNCHANGED << pd, queue, aborted >>
    /\ UNCHANGED << cfg, histVars, notifyVars >>

\* (variant: fast_forward(repo, next).unwrap(), an Err ends the thread)
FastForwardErrFatal ==
    /\ wpc = "ff"
    /\ res' = ResNone
    /\ wpc' = "panicked"
    /\ UNCHANGED << cursor, walk, pd, queue, aborted >>
    /\ UNCHANGED << remote, cfg, histVars, notifyVars >>

\* fast_forward(repo, next) returned Err: pull returns Err
FastForwardErr ==
    /\ wpc = "ff"
    /\ res' = ResNone
    /\ wpc' = "delay"
    /\ pd' = cfg.pull_delay
    /\ UNCHANGED << cursor, walk, queue, aborted >>
    /\ UNCHANGED << remote, cfg, histVars, notifyVars >>

\* while pd > ZERO { if abortable.is_aborted() { break 'outer } .. }
DelayAbort ==
    /\ wpc = "delay"
    /\ pd > 0
    /\ aborted
    /\ wpc' = "done"
    /\ UNCHANGED << cursor, walk, pd, res, queue, aborted >>
    /\ UNCHANGED << remote, cfg, histVars, notifyVars >>

\* pd = pd.saturating_sub(STEP); sleep(STEP)
DelayStep ==
    /\ wpc = "delay"
    /\ pd > 0
    /\ ~aborted
    /\ pd' = pd - 1
    /\ UNCHANGED << wpc, cursor, walk, res, queue, aborted >>
    /\ UNCHANGED << remote, cfg, histVars, notifyVars >>

\* the delay is over: next iteration of 'outer
DelayEnd ==
    /\ wpc = "delay"
    /\ pd = 0
    /\ wpc' = "start"
    /\ res' = ResNone
    /\ UNCHANGED << cursor, walk, pd, queue, aborted >>
    /\ UNCHANGED << remote, cfg, histVars, notifyVars >>

\* tg_loop: bot::run returned, abort_handle.abort()
Abort ==
    /\ ~aborted
    /\ aborted' = TRUE
    /\ UNCHANGED << workerVars, queue >>
    /\ UNCHANGED << remote, cfg, histVars, notifyVars >>

(***************************************************************************)
(* notify_loop, notify and notify_inner.                                   *)
(***************************************************************************)
\* (variant: the pattern (krate, action, _) drops the sender at once)
BindUnblockDropped(tx) == NoSender

\* the pattern (krate, action, _unblock) binds the sender: it lives until the
\* end of the loop body
BindUnblock(tx) == tx

\* rx.recv() returned Some((krate, action, _unblock)): notify starts, both
\* futures of the join! are created
Recv ==
    /\ dpc = "recv"
    /\ queue # <<>>
    /\ cur' = [krate |-> Head(queue).krate, action |-> Head(queue).action,
                unblock |-> BindUnblock(Head(queue).unblock)]
    /\ queue' = Tail(queue)
    /\ dpc' = "notify"
    /\ chPc' = "start" /\ chTry' = 0 /\ chOut' = NoCall /\ chCalled' = <<>>
    /\ usPc' = "lookup" /\ usTry' = 0 /\ usOut' = NoCall
    /\ users' = <<>> /\ usCalled' = <<>> /\ listed' = <<>> /\ dbErr' = FALSE
    /\ UNCHANGED << workerVars, aborted, remote, cfg, histVars >>

\* every Sender of the mpsc channel is gone: the git2 thread has ended
TxDropped == wpc \in {"done", "panicked"}

\* rx.recv() returned None
RecvNone ==
    /\ dpc = "recv"
    /\ queue = <<>>
    /\ TxDropped
    /\ dpc' = "stopped"
    /\ UNCHANGED << cur, chanVars, userVars >>
    /\ UNCHANGED << workerVars, queue, aborted, remote, cfg, histVars >>

\* tryn(n, delay, f) after the attempt number tries + 1 ended with `ok`:
\* finished at the first success or when the n-th attempt has failed too
Tryn(n, tries, ok) == [done |-> ok \/ tries + 1 >= n, ok |-> ok]

\* one bot.send_message(chat_id, msg).disable_notification(quiet) of
\* notify_inner, and the error! when tryn gave up
NotifyInner(chat_id, quiet, tries, ok) ==
    LET t == Tryn(RetryCount, tries, ok)
    IN  [done |-> t.done,
         call |-> [dest |-> chat_id, silent |-> quiet, ok |-> ok,
                   logged |-> t.done /\ ~t.ok]]

\* (variant: the channel is notified like the users)
ChannelQuietOff == FALSE

\* the `quiet` argument of the two notify_inner calls of notify
ChannelQuiet == TRUE
UsersQuiet == FALSE

\* (variant: the ban list is not consulted)
ChannelWantedNoBan(name) == cfg.channel # <<>>

\* if let Some(chat_id) = cfg.channel { if !cfg.ban.crates.contains(name) {
ChannelWanted(name) == cfg.channel # <<>> /\ name \notin BanCrates

\* channel_fut up to its notify_inner call
ChannelStart ==
    /\ dpc = "notify"
    /\ chPc = "start"
    /\ chPc' = IF ChannelWanted(cur.krate.name) THEN "try" ELSE "done"
    /\ UNCHANGED << chTry, chOut, chCalled, dpc, cur, userVars >>
    /\ UNCHANGED << workerVars, queue, aborted, remote, cfg, histVars >>

\* one attempt of the send to the channel
ChannelAttempt ==
    /\ dpc = "notify"
    /\ chPc = "try"
    /\ \E ok \in BOOLEAN :
         LET r == NotifyInner(cfg.channel[1], ChannelQuiet, chTry, ok)
         IN  /\ chOut' = r.call
             /\ chTry' = chTry + 1
             /\ chPc' = IF r.done THEN "done" ELSE "try"
    /\ chCalled' = IF chTry = 0 THEN Append(chCalled, cfg.channel[1]) ELSE chCalled
    /\ UNCHANGED << dpc, cur, userVars >>
    /\ UNCHANGED << workerVars, queue, aborted, remote, cfg, histVars >>

\* (variant: a failed query is not replaced by the empty iterator)
UsersOfIgnoreErr(name, dbOk) == Subscribers(name)

\* what the for loop of users_fut iterates over
UsersOf(name, dbOk) == IF dbOk THEN Subscribers(name) ELSE <<>>

\* db.list_subscribers(name).await, Ok or Err (logged, empty iterator)
ListSubscribers ==
    /\ dpc = "notify"
    /\ usPc = "lookup"
    /\ \E dbOk \in BOOLEAN :
         /\ users' = UsersOf(cur.krate.name, dbOk)
         /\ listed' = users'
         /\ dbErr' = ~dbOk
         /\ usPc' = IF users' = <<>> THEN "done" ELSE "try"
    /\ UNCHANGED << usTry, usOut, usCalled, dpc, cur, chanVars >>
    /\ UNCHANGED << workerVars, queue, aborted, remote, cfg, histVars >>

\* (variant: a send that tryn gave up ends the for loop)
UsersNextAbort(r) ==
    IF r.done THEN (IF r.call.ok THEN "sleep" ELSE "done") ELSE "try"

\* notify_inner returns () whether tryn ended Ok or Err: the loop body goes
\* on to the sleep
UsersNext(r) == IF r.done THEN "sleep" ELSE "try"

\* one attempt of the send to the subscriber the for loop is at
UserAttempt ==
    /\ dpc = "notify"
    /\ usPc = "try"
    /\ \E ok \in BOOLEAN :
         LET r == NotifyInner(Head(users), UsersQuiet, usTry, ok)
         IN  /\ usOut' = r.call
             /\ usTry' = usTry + 1
             /\ usPc' = UsersNext(r)
    /\ usCalled' = IF usTry = 0 THEN Append(usCalled, Head(users)) ELSE usCalled
    /\ UNCHANGED << users, listed, dbErr, dpc, cur, chanVars >>
    /\ UNCHANGED << workerVars, queue, aborted, remote, cfg, histVars >>

\* tokio::time::sleep(cfg.broadcast_delay_millis), then the next subscriber
UserSleep ==
    /\ dpc = "notify"
    /\ usPc = "sleep"
    /\ users' = Tail(users)
    /\ usTry' = 0
    /\ usPc' = IF users' = <<>> THEN "done" ELSE "try"
    /\ UNCHANGED << usOut, usCalled, listed, dbErr, dpc, cur, chanVars >>
    /\ UNCHANGED << workerVars, queue, aborted, remote, cfg, histVars >>

\* (variant: select! instead of join!, ready when either future is done)
JoinReadyEither == chPc = "done" \/ usPc = "done"

\* tokio::join!(channel_fut, users_fut) is ready
JoinReady == chPc = "done" /\ usPc = "done"

\* notify returns and the loop body ends: `_unblock` is dropped
NotifyDone ==
    /\ dpc = "notify"
    /\ JoinReady
    /\ dpc' = "recv"
    /\ cur' = NoItem
    /\ chPc' = "idle" /\ chTry' = 0 /\ chOut' = NoCall /\ chCalled' = <<>>
    /\ usPc' = "idle" /\ usTry' = 0 /\ usOut' = NoCall
    /\ users' = <<>> /\ usCalled' = <<>> /\ listed' = <<>> /\ dbErr' = FALSE
    /\ UNCHANGED << workerVars, queue, aborted, remote, cfg, histVars >>

Next ==
    \/ FetchOk \/ FetchErr \/ WalkDone \/ WalkSkip \/ WalkExtract
    \/ BlockingSend \/ WaitUnblock \/ FastForwardOk \/ FastForwardErr
    \/ DelayAbort \/ DelayStep \/ DelayEnd \/ Abort
    \/ Recv \/ RecvNone \/ ChannelStart \/ ChannelAttempt
    \/ ListSubscribers \/ UserAttempt \/ UserSleep \/ NotifyDone

Spec == Init /\ [][Next]_vars

(***************************************************************************)
(* Extraction alone: the for loop of pull is at the pair of a freshly      *)
(* fetched bors commit whose diff is any sequence of at most MaxLines      *)
(* lines, and diff_one is applied to it.                                   *)
(***************************************************************************)
DiffContents == { Foo(v, y) : v \in Versions, y \in BOOLEAN } \cup { Malformed }
DiffLines == [status : DeltaStatus, origin : LineOrigin, content : DiffContents]
AllDiffs == SeqsUpTo(DiffLines, MaxLines)

InitDiff ==
    /\ remote \in { << Commit("bors", d) >> : d \in AllDiffs }
    /\ cfg = [channel |-> <<ChannelId>>, pull_delay |-> MaxDelaySteps]
    /\ wpc = "walk"
    /\ cursor = 0
    /\ walk = 1
    /\ pd = 0
    /\ res = ResNone
    /\ InitNotifyLoop
    /\ InitHist

NextDiff == WalkExtract

SpecDiff == InitDiff /\ [][NextDiff]_vars

(***************************************************************************)
(* One hand-off: diff_one has just returned an update for the pair of a    *)
(* freshly fetched commit; the update is sent, notified, and the worker    *)
(* fast-forwards. Every step that is enabled is eventually taken: the      *)
(* runtime polls both futures of the join!, every send_message call and    *)
(* every database query returns, and the git2 thread polls try_recv every  *)
(* second.                                                                 *)
(***************************************************************************)
InitNotify ==
    /\ \E c \in RemoteCommits :
         /\ IsBors(c)
         /\ diff_one(c.diff).tag = "Ok"
         /\ remote = << c >>
         /\ res = diff_one(c.diff)
    /\ cfg \in Configs
    /\ wpc = "send"
    /\ cursor = 0
    /\ walk = 1
    /\ pd = 0
    /\ InitNotifyLoop
    /\ InitHist

NextNotify ==
    \/ BlockingSend \/ WaitUnblock \/ FastForwardOk \/ FastForwardErr
    \/ Recv \/ ChannelStart \/ ChannelAttempt
    \/ ListSubscribers \/ UserAttempt \/ UserSleep \/ NotifyDone

FairNotify ==
    /\ InitNotify
    /\ [][NextNotify]_vars
    /\ WF_vars(BlockingSend) /\ WF_vars(WaitUnblock)
    /\ WF_vars(FastForwardOk \/ FastForwardErr)
    /\ WF_vars(Recv) /\ WF_vars(ChannelStart) /\ WF_vars(ChannelAttempt)
    /\ WF_vars(ListSubscribers) /\ WF_vars(UserAttempt) /\ WF_vars(UserSleep)
    /\ WF_vars(NotifyDone)

(***************************************************************************)
(* Restarts: the process is killed at any point and started again. What is *)
(* on disk stays: the repository with its HEAD, the commits of origin, the *)
(* configuration. The channel, the oneshot senders, both loops and the     *)
(* abort handle are created anew by main.                                  *)
(***************************************************************************)
\* (variant: Repository::open fails and the index is cloned anew, so HEAD
\* is the tip of origin/master)
OpenHeadCloned == FetchHeadId

\* Repository::open(index_path): HEAD is where the last fast-forward left it
OpenHead == cursor

\* the update the worker has handed over and not yet fast-forwarded to
Interrupted ==
    IF wpc \in {"wait", "ff"}
    THEN [id |-> NextId, krate |-> res.krate, action |-> res.action]
    ELSE redo

Crash ==
    /\ redo' = Interrupted
    /\ cursor' = OpenHead
    /\ remote' = SubSeq(remote, OpenHead - cursor + 1, Len(remote))
    /\ wpc' = "start" /\ walk' = 0 /\ pd' = 0 /\ res' = ResNone
    /\ queue' = <<>>
    /\ aborted' = FALSE
    /\ dpc' = "recv"
    /\ cur' = NoItem
    /\ chPc' = "idle" /\ chTry' = 0 /\ chOut' = NoCall /\ chCalled' = <<>>
    /\ usPc' = "idle" /\ usTry' = 0 /\ usOut' = NoCall
    /\ users' = <<>> /\ usCalled' = <<>> /\ listed' = <<>> /\ dbErr' = FALSE
    /\ UNCHANGED << cfg, handed >>

InitCrash ==
    /\ Init
    /\ cfg = [channel |-> <<ChannelId>>, pull_delay |-> MaxDelaySteps]

NextCrash ==
    \/ FetchOk \/ FetchErr \/ WalkDone \/ WalkSkip \/ WalkExtract
    \/ BlockingSend \/ WaitUnblock \/ FastForwardOk \/ FastForwardErr
    \/ DelayStep \/ DelayEnd
    \/ Recv \/ ChannelStart \/ ChannelAttempt
    \/ ListSubscribers \/ UserAttempt \/ UserSleep \/ NotifyDone
    \/ Crash

SpecCrash == InitCrash /\ [][NextCrash]_vars

(***************************************************************************)
(* Shutdown: the whole pipeline, where every thread and every future that  *)
(* can take a step eventually takes one. The git2 thread is scheduled by   *)
(* the operating system and every call it makes returns; the runtime polls *)
(* notify_loop and both futures of the join!. Nothing is assumed about     *)
(* when, or whether, the bot stops (Abort).                                *)
(***************************************************************************)
Git2Thread ==
    \/ FetchOk \/ FetchErr \/ WalkDone \/ WalkSkip \/ WalkExtract
    \/ BlockingSend \/ WaitUnblock \/ FastForwardOk \/ FastForwardErr
    \/ DelayAbort \/ DelayStep \/ DelayEnd
NotifyLoop == Recv \/ RecvNone \/ NotifyDone
ChannelFut == ChannelStart \/ ChannelAttempt
UsersFut == ListSubscribers \/ UserAttempt \/ UserSleep

FairShutdown ==
    /\ Init
    /\ [][Next]_vars
    /\ WF_vars(Git2Thread) /\ WF_vars(NotifyLoop)
    /\ WF_vars(ChannelFut) /\ WF_vars(UsersFut)

(***************************************************************************)
(* End to end: HEAD is a commit with foo version 1; the remote has three   *)
(* bors commits after it, which were just fetched: the first adds the line *)
(* of foo version 2, the second replaces it by the yanked line, the third  *)
(* replaces that by the line that is not yanked. Every fetch succeeds and  *)
(* every fast-forward succeeds; sends to Telegram and the database query   *)
(* may fail. The threads and futures are scheduled as in FairShutdown.     *)
(***************************************************************************)
E2ECommits ==
    << Commit("bors", << Line("Modified", "+", Foo(2, FALSE)) >>),
       Commit("bors", << Line("Modified", "-", Foo(2, FALSE)),
                         Line("Modified", "+", Foo(2, TRUE)) >>),
       Commit("bors", << Line("Modified", "-", Foo(2, TRUE)),
                         Line("Modified", "+", Foo(2, FALSE)) >>) >>

InitE2E ==
    /\ remote = E2ECommits
    /\ cfg \in Configs
    /\ wpc = "walk"
    /\ cursor = 0
    /\ walk = 1
    /\ pd = 0
    /\ res = ResNone
    /\ InitNotifyLoop
    /\ InitHist

Git2ThreadE2E ==
    \/ FetchOk \/ WalkDone \/ WalkExtract
    \/ BlockingSend \/ WaitUnblock \/ FastForwardOk
    \/ DelayStep \/ DelayEnd
NotifyLoopE2E == Recv \/ NotifyDone

NextE2E == Git2ThreadE2E \/ NotifyLoopE2E \/ ChannelFut \/ UsersFut

FairE2E ==
    /\ InitE2E
    /\ [][NextE2E]_vars
    /\ WF_vars(Git2ThreadE2E) /\ WF_vars(NotifyLoopE2E)
    /\ WF_vars(ChannelFut) /\ WF_vars(UsersFut)

(***************************************************************************)
(* The pipeline when every fast_forward succeeds: the history of the index *)
(* is linear and append-only and the repository can be written. Fetches    *)
(* may fail, diff_one may fail or panic, sends and queries may fail.       *)
(***************************************************************************)
NextLinear ==
    \/ FetchOk \/ FetchErr \/ WalkDone \/ WalkSkip \/ WalkExtract
    \/ BlockingSend \/ WaitUnblock \/ FastForwardOk
    \/ DelayAbort \/ DelayStep \/ DelayEnd \/ Abort
    \/ Recv \/ RecvNone \/ ChannelStart \/ ChannelAttempt
    \/ ListSubscribers \/ UserAttempt \/ UserSleep \/ NotifyDone

SpecLinear == Init /\ [][NextLinear]_vars

TypeOK ==
    /\ wpc \in {"start", "walk", "send", "wait", "ff", "delay", "done", "panicked"}
    /\ dpc \in {"recv", "notify", "stopped"}
    /\ cursor \in 0..MaxCommits
    /\ chTry \in 0..RetryCount /\ usTry \in 0..RetryCount

(***************************************************************************)
(* Properties.                                                             *)
(***************************************************************************)
\* the pair the for loop is at, once diff_one has been applied to it
Extracted == res # ResNone /\ walk \in 1..Len(remote)
CurDiff == remote[walk].diff

\* the lines of the Modified and Added deltas of a diff, by origin
RemovedLines(d) ==
    SelectSeq(d, LAMBDA l : l.status \in {"Modified", "Added"} /\ l.origin = "-")
AddedLines(d) ==
    SelectSeq(d, LAMBDA l : l.status \in {"Modified", "Added"} /\ l.origin = "+")
AllRecords(ls) == \A i \in 1..Len(ls) : ls[i].content \in Crate

\* exactly one added line, at most one removed line, all of them records
OneAdded(d) ==
    /\ Len(AddedLines(d)) = 1 /\ Len(RemovedLines(d)) <= 1
    /\ AllRecords(AddedLines(d)) /\ AllRecords(RemovedLines(d))
NextRecord(d) == AddedLines(d)[1].content
PrevRecord(d) == RemovedLines(d)[1].content

\* the outcome of an extraction: the update handed to the send, or the
\* error that ends the cycle and leaves the worker in its delay
YieldsEvent(krate, action) == res = ResOk(krate, action) /\ wpc = "send"
FailsRecoverably == res = ResErr /\ wpc = "delay" /\ queue = <<>>

\* C1: the cursor is never at or past the commit of an update whose oneshot
\* sender is still alive; the cursor changes only by the fast-forward to
\* `next` of the current pair, taken when that sender is gone; the wait loop
\* is left only when the sender is gone, and the step the worker takes after
\* it is the fast-forward.
C1_AckBeforeAdvance ==
    /\ [](\A id \in InFlight : cursor < id)
    /\ [][cursor' # cursor
            => wpc = "ff" /\ cursor' = NextId /\ NextId \notin InFlight]_vars
    /\ [][wpc = "wait" /\ wpc' # "wait"
            => wpc' = "ff" /\ NextId \notin InFlight /\ cursor' = cursor]_vars
    /\ [][wpc = "ff" /\ wpc' # "ff"
            => \/ wpc' = "walk" /\ cursor' = NextId
               \/ wpc' = "delay" /\ cursor' = cursor]_vars

\* an update was notified and the cursor was moved to its commit
C1_Witness == cursor >= 1 /\ wpc = "walk" /\ dpc = "recv"

\* C2: an update is handed to the channel only when no earlier update is in
\* the channel or being notified, and the update notify_loop starts on is
\* the one the worker derived last and now waits for: updates are notified
\* in the order they were derived, one at a time.
C2_InOrder ==
    /\ [][Len(queue') > Len(queue)
            => queue = <<>> /\ dpc = "recv" /\ InFlight = {}]_vars
    /\ [][dpc = "recv" /\ dpc' = "notify"
            => /\ wpc = "wait"
               /\ Head(queue).unblock = NextId
               /\ cur'.krate = res.krate /\ cur'.action = res.action
               /\ queue' = <<>>]_vars

\* a second update is being notified after the first one moved the cursor
C2_Witness == dpc = "notify" /\ cursor >= 1 /\ wpc = "wait"

\* the classification table of the specification
TableEntry(d) ==
    IF RemovedLines(d) = <<>>
    THEN IF ~NextRecord(d).yanked THEN "NewVersion" ELSE "Ambiguous"
    ELSE IF ~PrevRecord(d).yanked /\ NextRecord(d).yanked THEN "Yanked"
    ELSE IF PrevRecord(d).yanked /\ ~NextRecord(d).yanked THEN "Unyanked"
    ELSE "Ambiguous"

\* C3: for a diff with exactly one added line and at most one removed line,
\* diff_one returns the update the table gives, with the record of the added
\* line, and in every other combination of the yanked flags the recoverable
\* error and no update.
C3_YankTable ==
    (Extracted /\ OneAdded(CurDiff))
        => IF TableEntry(CurDiff) = "Ambiguous"
           THEN FailsRecoverably
           ELSE YieldsEvent(NextRecord(CurDiff), TableEntry(CurDiff))

\* a removed not-yanked line and an added yanked line gave Yanked
C3_Witness ==
    /\ Extracted /\ OneAdded(CurDiff) /\ RemovedLines(CurDiff) # <<>>
    /\ res = ResOk(Foo(2, TRUE), "Yanked")

\* one removed line and one added line, neither yanked, same name
BothNotYanked(d) ==
    /\ OneAdded(d) /\ Len(RemovedLines(d)) = 1
    /\ ~PrevRecord(d).yanked /\ ~NextRecord(d).yanked
    /\ PrevRecord(d).name = NextRecord(d).name
\* only the added line, not yanked
AddedOnly(d) ==
    OneAdded(d) /\ RemovedLines(d) = <<>> /\ ~NextRecord(d).yanked

\* C4 as stated: a removed and an added line that are both not yanked yield
\* NewVersion, and so does the added line alone.
C4_Original ==
    (Extracted /\ (BothNotYanked(CurDiff) \/ AddedOnly(CurDiff)))
        => YieldsEvent(NextRecord(CurDiff), "NewVersion")

\* C4 amended: a removed and an added line that are both not yanked yield
\* the recoverable error and no update; the added not-yanked line alone
\* yields NewVersion.
C4_Amended ==
    /\ (Extracted /\ BothNotYanked(CurDiff)) => FailsRecoverably
    /\ (Extracted /\ AddedOnly(CurDiff))
          => YieldsEvent(NextRecord(CurDiff), "NewVersion")

\* diff_one was applied to a removed and an added line, both not yanked
C4_Witness == Extracted /\ BothNotYanked(CurDiff) /\ res = ResErr

\* two or more removed lines, two or more added lines, or no added line
ShapeViolation(d) ==
    \/ Len(RemovedLines(d)) >= 2
    \/ Len(AddedLines(d)) >= 2
    \/ Len(AddedLines(d)) = 0

\* C5 as stated: a diff of the wrong shape yields no update but an error that
\* ends the cycle only: the worker is alive, in the delay before its next
\* cycle, and the cursor is where it was.
C5_Original ==
    (Extracted /\ ShapeViolation(CurDiff))
        => res.tag = "Err" /\ wpc \notin {"panicked", "send", "wait", "ff"}

\* C6 as stated: the send to the channel notifies, the sends to the
\* subscribers are silent.
C6_Original ==
    /\ chOut # NoCall => ~chOut.silent
    /\ usOut # NoCall => usOut.silent

\* C6 amended: every send_message call of channel_fut goes to the channel
\* with disable_notification(true), every call of users_fut goes to a
\* subscriber of the crate with disable_notification(false).
C6_Amended ==
    /\ chOut # NoCall => chOut.dest = ChannelId /\ chOut.silent
    /\ usOut # NoCall
         => /\ \E i \in 1..Len(Subscribers(cur.krate.name)) :
                 usOut.dest = Subscribers(cur.krate.name)[i]
            /\ ~usOut.silent

\* both futures have made a call for the same update
C6_Witness == dpc = "notify" /\ chOut # NoCall /\ usOut # NoCall

\* C7: for a banned crate channel_fut makes no call at all while users_fut
\* has called notify_inner for every subscriber the query returned when both
\* futures are done; for a crate that is not banned, with a channel
\* configured, channel_fut has called notify_inner exactly once by then.
C7_BanList ==
    dpc = "notify"
        => /\ cur.krate.name \in BanCrates
                => chCalled = <<>> /\ chOut = NoCall /\ chPc # "try"
           /\ (JoinReady /\ cur.krate.name \in BanCrates)
                => usCalled = (IF dbErr THEN <<>> ELSE Subscribers(cur.krate.name))
           /\ (JoinReady /\ cur.krate.name \notin BanCrates /\ cfg.channel # <<>>)
                => chCalled = << ChannelId >>
           /\ Len(chCalled) <= 1

\* a banned crate with a channel configured: its subscriber was sent to
C7_Witness ==
    /\ dpc = "notify" /\ JoinReady /\ cfg.channel # <<>>
    /\ cur.krate.name \in BanCrates /\ usCalled = <<3>> /\ usOut.ok

\* where a send stands: no attempt after a success, at most 5 attempts, error
\* logged exactly when the fifth attempt failed
SendWithinRetries(trying, finished, tries, out) ==
    /\ tries <= 5
    /\ (trying /\ tries > 0) => ~out.ok /\ ~out.logged /\ tries < 5
    /\ finished => IF out.ok THEN ~out.logged /\ tries <= 5
                   ELSE out.logged /\ tries = 5

\* C8: a send makes at most 5 send_message calls and none after the first
\* success; a send that succeeds logs no error; a send whose 5 calls failed
\* logs the error and makes no further call.
C8_Retry ==
    /\ SendWithinRetries(chPc = "try", chPc = "done" /\ chOut # NoCall, chTry, chOut)
    /\ SendWithinRetries(usPc = "try", usPc = "sleep", usTry, usOut)

\* a subscriber was delivered to at the fifth attempt
C8_Witness == usPc = "sleep" /\ usTry = 5 /\ usOut.ok /\ ~usOut.logged

\* C9: whatever sends fail, users_fut has called notify_inner for every
\* subscriber when it is done and channel_fut has made its call; a send that
\* tryn gave up is followed by the release of the sender and by the worker
\* reaching its fast-forward.
C9_FailureIsolated ==
    /\ [](dpc = "notify" /\ usPc = "done" /\ ~dbErr
            => usCalled = Subscribers(cur.krate.name))
    /\ [](dpc = "notify" /\ JoinReady /\ cfg.channel # <<>>
                         /\ cur.krate.name \notin BanCrates
            => chCalled = << ChannelId >>)
    /\ (dpc = "notify" /\ (chOut.logged \/ usOut.logged))
          ~> (wpc = "ff" /\ InFlight = {} /\ dpc = "recv")

\* the send to the first subscriber was given up and the second one is next
C9_Witness ==
    /\ dpc = "notify" /\ usPc = "try" /\ usTry = 0
    /\ usOut.dest = 1 /\ usOut.logged /\ Head(users) = 2

\* C10: after a failed query users_fut is done without any send, channel_fut
\* still makes its call, and the sender is released so that the worker
\* reaches its fast-forward.
C10_LookupFailure ==
    /\ [](dpc = "notify" /\ dbErr
            => usPc = "done" /\ usCalled = <<>> /\ usOut = NoCall)
    /\ [](dpc = "notify" /\ dbErr /\ JoinReady /\ cfg.channel # <<>>
                         /\ cur.krate.name \notin BanCrates
            => chCalled = << ChannelId >>)
    /\ (dpc = "notify" /\ dbErr) ~> (wpc = "ff" /\ InFlight = {} /\ dpc = "recv")

\* the query failed and the channel was sent to
C10_Witness ==
    dpc = "notify" /\ dbErr /\ JoinReady /\ chCalled = << ChannelId >>

\* C11: with restarts at any point, the cursor moves only by the fast-forward
\* to a commit whose update was handed over and whose sender is gone, and a
\* sender the worker waits for goes away only when notify has returned or
\* the process is killed; a restart after the hand-off and before the
\* fast-forward leaves the cursor and the commits ahead of it as they were;
\* the update derived again for that commit, and the one notify_loop
\* receives for it, is the update the restart cut short; the cursor reaches
\* that commit only by the fast-forward after this update was released.
C11_NoEventLost ==
    /\ [](\A id \in InFlight : cursor < id)
    /\ [][cursor' # cursor
            => /\ wpc = "ff" /\ cursor' = NextId
               /\ NextId \in handed /\ NextId \notin InFlight]_vars
    /\ [][wpc = "wait" /\ NextId \in InFlight /\ NextId \notin InFlight'
            => \/ dpc = "notify" /\ JoinReady /\ wpc' = "wait"
               \/ wpc' = "start"]_vars
    /\ [][(wpc = "wait" \/ wpc = "ff") /\ wpc' = "start"
            => /\ cursor' = cursor /\ remote' = remote
               /\ redo' = Interrupted /\ redo'.id = NextId]_vars
    /\ [](redo # NoRedo /\ wpc \in {"send", "wait", "ff"} /\ NextId = redo.id
            => res = ResOk(redo.krate, redo.action))
    /\ [](redo # NoRedo /\ cur # NoItem /\ cur.unblock = redo.id
            => cur.krate = redo.krate /\ cur.action = redo.action)
    /\ [][cursor < redo.id /\ cursor' >= redo.id
            => /\ wpc = "ff" /\ cursor' = redo.id
               /\ res = ResOk(redo.krate, redo.action)
               /\ redo.id \notin InFlight]_vars

\* the update a restart cut short is being notified again
C11_Witness ==
    /\ redo # NoRedo /\ cursor < redo.id /\ wpc = "wait" /\ dpc = "notify"
    /\ cur = [krate |-> redo.krate, action |-> redo.action, unblock |-> redo.id]

\* the git2 thread has ended and notify_loop has left its while loop with
\* nothing left in the channel
ShutdownComplete == TxDropped /\ dpc = "stopped" /\ queue = <<>>

\* C12 as stated: once abort_handle.abort() was called, whatever pull_delay
\* is and wherever the git2 thread is, the thread ends, the channel is
\* closed and drained and notify_loop ends; a notify that has begun is
\* left only when both futures of its join! are done.
C12_Original ==
    /\ [][dpc = "notify" /\ dpc' # "notify" => JoinReady /\ dpc' = "recv"]_vars
    /\ aborted ~> ShutdownComplete

\* the updates of the three commits, as the specification names them
E2EUpdate(id) ==
    IF id = 1 THEN [krate |-> Foo(2, FALSE), action |-> "NewVersion", unblock |-> 1]
    ELSE IF id = 2 THEN [krate |-> Foo(2, TRUE), action |-> "Yanked", unblock |-> 2]
    ELSE [krate |-> Foo(2, FALSE), action |-> "Unyanked", unblock |-> 3]

\* C13: the update of a commit is handed to the channel when exactly the
\* updates of the commits before it have been handed over, and never a
\* second time; what is handed over, and what notify_loop receives, for the
\* first commit is NewVersion, for the second Yanked, for the third
\* Unyanked, each of foo version 2; a cycle ends with HEAD at the third
\* commit and all three handed over; and this end is reached and kept.
C13_EndToEnd ==
    /\ [][Len(queue') > Len(queue)
            => /\ NextId \notin handed /\ handed = 1 .. (NextId - 1)
               /\ NextId \in 1 .. Len(E2ECommits)
               /\ queue' = << E2EUpdate(NextId) >>]_vars
    /\ [][dpc = "recv" /\ dpc' = "notify"
            => cur' = E2EUpdate(cursor + 1) /\ handed = 1 .. (cursor + 1)]_vars
    /\ [](wpc = "delay" => cursor = Len(E2ECommits) /\ handed = 1 .. Len(E2ECommits))
    /\ <>[](cursor = Len(E2ECommits) /\ handed = 1 .. Len(E2ECommits)
            /\ queue = <<>> /\ dpc = "recv")

\* the third update is being notified after the first two moved HEAD
C13_Witness ==
    /\ remote = SubSeq(E2ECommits, 3, 3) /\ cursor = 2 /\ handed = {1, 2, 3}
    /\ dpc = "notify" /\ cur = E2EUpdate(3)

\* both channel_fut and users_fut have run to their end
BothFlowsDone == chPc = "done" /\ usPc = "done"

\* C14: the sender notify_loop holds goes away only at the end of the loop
\* body, when both futures are done, and notify_loop is then back at recv
\* holding nothing; while notify runs the sender is alive; notify_loop
\* receives only when it holds no sender, and what it receives is then the
\* only live sender; every notify that begins ends with the release.
C14_ReleaseOnce ==
    /\ [][cur.unblock # NoSender /\ cur'.unblock # cur.unblock
            => /\ dpc = "notify" /\ BothFlowsDone
               /\ dpc' = "recv" /\ cur' = NoItem
               /\ cur.unblock \notin InFlight']_vars
    /\ [](dpc = "notify" => cur.unblock # NoSender /\ cur.unblock \in InFlight)
    /\ [](dpc # "notify" => cur = NoItem)
    /\ [][dpc = "recv" /\ dpc' = "notify"
            => /\ cur = NoItem /\ cur'.unblock = Head(queue).unblock
               /\ InFlight' = { cur'.unblock } /\ queue' = <<>>]_vars
    /\ [][dpc = "notify" /\ dpc' # "notify" => BothFlowsDone /\ dpc' = "recv"]_vars
    /\ (dpc = "notify") ~> (dpc = "recv" /\ InFlight = {})

\* the second update was released after sends to both subscribers and the
\* worker has not yet looked
C14_Witness ==
    /\ cursor = 1 /\ wpc = "wait" /\ NextId \in handed /\ NextId \notin InFlight
    /\ dpc = "recv" /\ cur = NoItem

\* the for loop is at a pair whose `next` was not authored by bors
AtForeignCommit == wpc = "walk" /\ walk <= fetchHead /\ ~IsBors(remote[walk])

\* C15 as stated: the step pull takes at a pair whose `next` is not from
\* bors hands nothing to the channel and moves HEAD to `next`; a cycle that
\* ends after skipping the last fetched commit ends with HEAD at it.
C15_Original ==
    /\ [][AtForeignCommit /\ walk' # walk
            => queue' = queue /\ handed' = handed /\ cursor' = NextId]_vars
    /\ [](wpc = "delay" /\ walk > fetchHead /\ fetchHead >= 1
            => (~IsBors(remote[fetchHead]) => cursor = FetchHeadId))

\* the lines of a diff that belong to Modified or Added deltas
Supported(d) == SelectSeq(d, LAMBDA l : l.status \in {"Modified", "Added"})
\* a diff that has lines, none of them of a Modified or Added delta
OnlyUnsupported(d) == d # <<>> /\ Supported(d) = <<>>

\* C16 as stated: the lines of deltas that are neither Modified nor Added
\* change nothing in what diff_one returns; a diff of such deltas only
\* gives no update, no error, and leaves the git2 thread running.
C16_Original ==
    /\ Extracted => res = diff_one(Supported(CurDiff))
    /\ (Extracted /\ OnlyUnsupported(CurDiff))
          => res.tag # "Ok" /\ res.tag # "Err" /\ wpc # "panicked"

\* a step in which the fetch fails, diff_one returns Err, or fast_forward
\* returns Err
FetchFails == wpc = "start" /\ wpc' # "start" /\ wpc' # "walk"
ExtractFails == wpc = "walk" /\ res'.tag = "Err"
FastForwardFails == wpc = "ff" /\ wpc' # "ff" /\ cursor' = cursor
\* the git2 thread has taken a step
Git2Step == wpc' # wpc \/ walk' # walk \/ pd' # pd

\* C17: a failing fetch, an Err of diff_one and an Err of fast_forward each
\* leave HEAD and the channel as they were and put the thread into the
\* delay with the whole pull_delay ahead; in the delay the thread hands
\* nothing over and does not move HEAD, it can always take a step, and it
\* leaves the delay only for the next cycle, when the delay is used up, or
\* for its end, when abort was called; the next cycle starts with the fetch
\* and walks from the pair after HEAD.
C17_CycleAbandoned ==
    /\ [][FetchFails \/ ExtractFails \/ FastForwardFails
            => /\ wpc' = "delay" /\ pd' = cfg.pull_delay
               /\ cursor' = cursor /\ queue' = queue /\ handed' = handed]_vars
    /\ [][wpc = "delay" /\ Git2Step
            => /\ cursor' = cursor /\ handed' = handed
               /\ Len(queue') <= Len(queue)
               /\ \/ wpc' = "delay" /\ pd' = pd - 1 /\ ~aborted
                  \/ wpc' = "start" /\ pd = 0
                  \/ wpc' = "done" /\ aborted /\ pd > 0]_vars
    /\ [](wpc = "delay" => ENABLED (DelayStep \/ DelayEnd \/ DelayAbort))
    /\ [](wpc = "start" => ENABLED (FetchOk \/ FetchErr))
    /\ [][wpc = "start" /\ wpc' = "walk" => walk' = 1 /\ cursor' = cursor]_vars

\* fast_forward failed after the update was notified, and the next cycle is
\* at the same pair again
C17_Witness ==
    /\ wpc = "walk" /\ walk = 1 /\ NextId \in handed /\ res = ResNone
    /\ queue = <<>> /\ dpc = "recv" /\ ~aborted

\* C18: at most one oneshot sender is alive, and it is the one of the pair
\* the worker is at, which then waits for it; the channel never holds more
\* than one tuple, so less than its capacity; when the worker is about to
\* send, the channel is empty and no sender is alive, so blocking_send
\* returns at once.
C18_OneInFlight ==
    /\ Cardinality(InFlight) <= 1
    /\ Len(queue) <= 1 /\ Len(queue) < ChannelCapacity
    /\ InFlight # {} => InFlight = { NextId } /\ wpc = "wait"
    /\ wpc = "send" => queue = <<>> /\ InFlight = {} /\ dpc = "recv" /\ ENABLED BlockingSend
    /\ \A id \in InFlight : cursor = id - walk

\* the second update is in the channel, not yet received
C18_Witness ==
    /\ cursor = 1 /\ wpc = "wait" /\ Len(queue) = 1 /\ queue[1].unblock = NextId
    /\ dpc = "recv"

\* C19: when every fast_forward succeeds, the update of a commit is handed
\* to the channel only if none was handed over for it before; every commit
\* that had an update handed over is at or behind HEAD, or is the one the
\* worker waits for or fast-forwards to; the walk of a cycle starts at the
\* pair (HEAD, HEAD + 1) and every pair diff_one is applied to has its
\* `next` after HEAD; a cycle whose fetch finds FETCH_HEAD = HEAD can only
\* end: it applies diff_one to no pair, skips none, sends nothing and
\* leaves HEAD where it is.
C19_AtMostOnce ==
    /\ [][Len(queue') > Len(queue) => NextId \notin handed /\ NextId > cursor]_vars
    /\ [](\A id \in handed :
            id <= cursor \/ (id = NextId /\ (wpc = "wait" \/ wpc = "ff")))
    /\ [][wpc = "start" /\ wpc' = "walk" => walk' = 1 /\ cursor' = cursor]_vars
    /\ [][wpc = "walk" /\ res' # res => NextId > cursor /\ NextId \notin handed]_vars
    /\ [](wpc = "walk" /\ remote = <<>>
            => ~ENABLED WalkExtract /\ ~ENABLED WalkSkip /\ ENABLED WalkDone)
    /\ [][wpc = "walk" /\ remote = <<>> /\ wpc' # wpc
            => wpc' = "delay" /\ cursor' = cursor /\ queue' = queue
               /\ handed' = handed /\ res' = res]_vars
    /\ [][cursor' >= cursor]_vars

\* a cycle found nothing new after both commits had their update handed
\* over and were fast-forwarded to
C19_Witness ==
    wpc = "delay" /\ remote = <<>> /\ cursor = 2 /\ handed = {1, 2} /\ walk = 1

\* the bors commits for whose pair diff_one returns Err, and those of them
\* that are fetched and after HEAD
ErrCommits == { c \in RemoteCommits : IsBors(c) /\ diff_one(c.diff).tag = "Err" }
ErrAhead == { cursor + i : i \in { j \in 1 .. Len(remote) : remote[j] \in ErrCommits } }

\* C20: a fetched commit for whose pair diff_one returns Err stays ahead
\* of HEAD for ever; whenever the walk comes to its pair, diff_one returns
\* the Err again and the cycle ends in the delay; the walk never goes
\* beyond it; no update is ever handed over for it or for a commit after
\* it, whatever is fetched later.
C20_StuckAtError ==
    /\ [][ErrAhead \subseteq ErrAhead']_vars
    /\ [](\A id \in ErrAhead : cursor < id /\ (\A h \in handed : h < id))
    /\ [](\A id \in ErrAhead : wpc # "start" /\ walk <= fetchHead => NextId <= id)
    /\ [][wpc = "walk" /\ walk <= fetchHead /\ NextId \in ErrAhead /\ wpc' # wpc
            => /\ res' = ResErr /\ wpc' = "delay" /\ pd' = cfg.pull_delay
               /\ cursor' = cursor /\ queue' = queue /\ handed' = handed]_vars

\* diff_one returned Err for the pair after HEAD while another commit is
\* fetched behind it, and nothing was handed over
C20_Witness ==
    /\ wpc = "delay" /\ res = ResErr /\ walk = 1 /\ cursor = 0
    /\ remote[1] \in ErrCommits
    /\ Len(remote) = 2 /\ IsBors(remote[2]) /\ diff_one(remote[2].diff).tag = "Ok"
    /\ handed = {} /\ queue = <<>>

====
